---- MODULE Spec2Model ----
(***************************************************************************)
(* TTApp timetable generation (src/app.py, generate_schedule) as a state   *)
(* machine.  The store tables Teacher, Class, Subject are fixed by Init;   *)
(* the Schedule table is `db` (committed rows) plus `sess` (rows the       *)
(* running request has added and flushed but not yet committed).           *)
(***************************************************************************)
EXTENDS Integers, Sequences, FiniteSets, Bags, TLC

VARIABLES
    teacherRows,     \* Teacher table, store order: [id, is_leisure, subjects]
    classRows,       \* Class table, store order: [id, grade, class_teacher_id]
    subjectRows,     \* Subject table, store order: [id, name]
    db,              \* committed Schedule rows
    sess,            \* Schedule rows of the open transaction (db.session.add)
    nextId,          \* next Schedule primary key
    pc,              \* position of the generate_schedule request
    day,             \* loop variable `day`
    ci,              \* index of `class_obj` in `classes`
    teachers,        \* local `teachers`: the non-leisure Teacher rows (674)
    classes,         \* local `classes` (675)
    subjects,        \* local `subjects` (676)
    library_subject, games_subject, maths_subject,      \* ids, or None
    physical_science_subject, bio_science_subject, science_subject,
    subject_teacher_map,         \* subject id -> list of teacher ids
    class_subject_teacher_map,   \* class id -> (subject id -> teacher id)
    unscheduled_periods,         \* list of report entries
    summary,                     \* missing_requirements['summary']
    fallback,        \* history: slots that took the placeholder fallback branch
    before,          \* history: Schedule table when the request arrived
    status,          \* HTTP status of the response (0 while none)
    unscheduled_count,           \* response field
    absenceRows,     \* Absence table: a bag of rows [teacher_id, date]
    posting,         \* POSTs to /api/absent-teachers between check and insert
    answer,          \* the last request to /api/absent-teachers and its response
    pc2,             \* position of a second generate_schedule request
    first,           \* history: what the first request left when the second
                     \* one deleted: [serial, ok, rows, start]
    userRows,        \* User table, store order: [id, username, email,
                     \* password_hash, is_admin, teacher_id, status]
    sessions,        \* caller -> session['user_id'] of its cookie, or None
    reply            \* the last account request and its status: [route, code]

tables == << teacherRows, classRows, subjectRows >>
read == << teachers, classes, subjects, library_subject, games_subject,
           maths_subject, physical_science_subject, bio_science_subject,
           science_subject, subject_teacher_map >>
locals == << day, ci, class_subject_teacher_map, unscheduled_periods, summary >>

(* the state of the other requests *)
(* the second generation request *)
second == << pc2, first >>

(* the accounts, the callers' cookies and the answer of an account request *)
auth == << userRows, sessions, reply >>

others == << absenceRows, posting, answer, second, auth >>

vars == << tables, read, locals, db, sess, nextId, pc, fallback, before, status,
           unscheduled_count, others >>

-----------------------------------------------------------------------------
(* Bounds of the model *)

MaxTeachers == 2
MaxClasses == 2
(* browsers (cookies) that send requests *)
MaxCallers == 2
(* rows of the User table *)
MaxUsers == 3

(* Python's None for an integer column or an id *)
None == 0
(* the marker get_available_teacher_for_subject returns for allow_no_teacher *)
NoTeacherNeeded == -1

(* range(5), periods of a day, list slices *)
NumDays == 5
LastPeriod == 8
LastRegular67 == 6
LastRegular89 == 7
Take5 == 5
Take6 == 6
Take7 == 7

Grades == {None, 5, 7, 9, 10}

-----------------------------------------------------------------------------
(* Sequence helpers *)

Range(s) == { s[i] : i \in 1..Len(s) }

Take(s, n) == SubSeq(s, 1, IF Len(s) < n THEN Len(s) ELSE n)

RECURSIVE SortedSeq(_)
SortedSeq(S) ==
    IF S = {} THEN << >>
    ELSE LET m == CHOOSE x \in S : \A y \in S : x <= y
         IN << m >> \o SortedSeq(S \ {m})

(* index of the first TRUE of a list of booleans, or 0 *)
FirstTrue(flags) ==
    IF \E i \in 1..Len(flags) : flags[i]
    THEN CHOOSE i \in 1..Len(flags) : flags[i] /\ \A j \in 1..(i-1) : ~flags[j]
    ELSE 0

ElemOrNone(s, i) == IF i = 0 THEN None ELSE s[i]

(* first element of a list of ids that is not in `excluded`, or None *)
FirstNotIn(s, excluded) ==
    ElemOrNone(s, FirstTrue([ i \in 1..Len(s) |-> s[i] \notin excluded ]))

-----------------------------------------------------------------------------
(* func.lower over the subject names of the catalogues and the usernames *)
Lower(n) ==
    CASE n = "Library" -> "library"
      [] n = "Asha" -> "asha"
      [] n = "Games" -> "games"
      [] n = "Maths" -> "maths"
      [] n = "Mathematics" -> "mathematics"
      [] n = "Science" -> "science"
      [] n = "Physics" -> "physics"
      [] n = "Biology" -> "biology"
      [] n = "English" -> "english"
      [] n = "Hindi" -> "hindi"
      [] n = "Telugu" -> "telugu"
      [] n = "Social" -> "social"
      [] OTHER -> n

(* Subject catalogues the store may hold *)
CatExample == << "Library", "Games", "Maths", "English", "Hindi", "Science", "Social" >>
CatFull == << "Mathematics", "English", "Hindi", "Telugu", "Social", "Physics",
              "Biology", "Science", "Library", "Games" >>
CatScience == << "Maths", "English", "Hindi", "Science", "Social", "Telugu",
                 "Library", "Games" >>
CatSmall == << "English", "hindi", "Games" >>
CatEmpty == << >>
Catalogues == { CatExample, CatFull, CatScience, CatSmall, CatEmpty }

SubjectTable(cat) == [ i \in 1..Len(cat) |-> [id |-> i, name |-> cat[i]] ]

(* eligible-subject sets a teacher may have over a catalogue of n subjects *)
EligibleSets(n) == { 1..n, { i \in 1..n : i % 2 = 1 }, { i \in 1..n : i % 2 = 0 } }

TeacherProfiles(n) ==
    { [is_leisure |-> FALSE, subjects |-> e] : e \in EligibleSets(n) }
    \cup { [is_leisure |-> TRUE, subjects |-> {}] }

TeacherTables(n) ==
    { [ i \in 1..MaxTeachers |->
          [id |-> i, is_leisure |-> f[i].is_leisure, subjects |-> f[i].subjects] ]
      : f \in [1..MaxTeachers -> TeacherProfiles(n)] }

ClassTables ==
    UNION { { [ i \in 1..k |-> [id |-> i, grade |-> g[i], class_teacher_id |-> t[i]] ]
              : g \in [1..k -> Grades], t \in [1..k -> 0..MaxTeachers] }
            : k \in 0..MaxClasses }

-----------------------------------------------------------------------------
(* What generate_schedule reads from the tables (674-731) *)

Ids(rows) == [ i \in 1..Len(rows) |-> rows[i].id ]

read_teachers == SelectSeq(teacherRows, LAMBDA t : ~t.is_leisure)

IdOrNone(rows, i) == IF i = 0 THEN None ELSE rows[i].id

(* Subject.query.filter(func.lower(Subject.name) in names).first(), as an id *)
SubjectNamed(names) ==
    IdOrNone(subjectRows,
             FirstTrue([ i \in 1..Len(subjectRows) |->
                           Lower(subjectRows[i].name) \in names ]))

OrElse(a, b) == IF a # None THEN a ELSE b

(* 695-697: 'maths', else 'mathematics' *)
read_maths_subject == OrElse(SubjectNamed({"maths"}), SubjectNamed({"mathematics"}))

(* 714-718: teachers of a subject, in the order of the teacher list *)
TeachersOf(ts, s) == Ids(SelectSeq(ts, LAMBDA t : s \in t.subjects))

(* 722-731: Science gets list(set(science teachers + bio science teachers)) *)
build_subject_teacher_map(ts, ss, bio, science) ==
    [ s \in Range(Ids(ss)) |->
        IF bio # None /\ science # None /\ s = science
        THEN SortedSeq(Range(TeachersOf(ts, science)) \cup Range(TeachersOf(ts, bio)))
        ELSE TeachersOf(ts, s) ]

TeacherIds == Range(Ids(teacherRows))
SubjectIds == Range(Ids(subjects))

(* subject_teacher_map.get(subject_id, []) *)
Candidates(subject_id) ==
    IF subject_id \in DOMAIN subject_teacher_map
    THEN subject_teacher_map[subject_id] ELSE << >>

(* the teachers of the rows at (day, period) of any class *)
BusyTeachers_AnyClass(rows, d, period, exclude_class_id) ==
    { r.teacher_id : r \in { x \in rows : x.day = d /\ x.period = period } }

(* 750-755: teachers of the rows at (day, period) of another class *)
BusyTeachers(rows, d, period, exclude_class_id) ==
    { r.teacher_id : r \in { x \in rows : x.day = d /\ x.period = period
                                           /\ x.class_id # exclude_class_id } }

(* the first candidate, busy or not *)
FirstFree_IgnoresBusy(candidate_teachers, busy_teachers) == candidate_teachers[1]

(* 757-762: the first candidate that is not busy *)
FirstFree(candidate_teachers, busy_teachers) ==
    FirstNotIn(candidate_teachers, busy_teachers)

(* get_available_teacher_for_subject over the Schedule rows the query sees *)
get_available_teacher_for_subject(rows, subject_id, d, period, exclude_class_id, allow_no_teacher) ==
    IF allow_no_teacher THEN NoTeacherNeeded
    ELSE IF Candidates(subject_id) = << >> THEN None
    ELSE FirstFree(Candidates(subject_id),
                   BusyTeachers(rows, d, period, exclude_class_id))

(* the placeholder: teachers[0] if teachers else None *)
placeholder_teacher == IF Len(teachers) > 0 THEN teachers[1].id ELSE None

(* "if not teacher_id: teacher_id = placeholder" *)
OrPlaceholder(found) == IF found = None THEN placeholder_teacher ELSE found

(* 773-782: is some subject without any teacher *)
subjects_without_any_teacher(ss, stm) ==
    SelectSeq(Ids(ss), LAMBDA s : Len(stm[s]) = 0)

-----------------------------------------------------------------------------
(* One pass of the loop body for (day, class_obj).  The pass threads a     *)
(* record st: rows (the session's added rows), next (next primary key),    *)
(* map (class_subject_teacher_map[class_obj.id]), unsched, summ, fb, and   *)
(* the pass's own existing (existing_subjects_today), period1_assigned and *)
(* stop (the period loop has hit `break`).                                 *)

(* db.session.add(Schedule(...)) *)
AddSchedule(st, teacher_id, class_id, subject_id, d, period) ==
    [ st EXCEPT !.rows = @ \cup { [id |-> st.next, teacher_id |-> teacher_id,
                                   class_id |-> class_id, subject_id |-> subject_id,
                                   day |-> d, period |-> period] },
                !.next = @ + 1 ]

(* unscheduled_periods.append(...) *)
Unscheduled(st, class_id, d, period, what) ==
    [ st EXCEPT !.unsched = Append(@, [class_id |-> class_id, day |-> d,
                                       period |-> period, what |-> what]) ]

(* a report whose summary is never written *)
Summary_Dropped(st, class_id, what) == st

(* missing_requirements['summary'].append(...) *)
Summary(st, class_id, what) ==
    [ st EXCEPT !.summ = Append(@, [class_id |-> class_id, what |-> what]) ]

(* a pass that forgets which subjects it has used today *)
UsedToday_Forgotten(st, subject_id) == st

(* existing_subjects_today.add(subject.id) *)
UsedToday(st, subject_id) == [ st EXCEPT !.existing = @ \cup { subject_id } ]

(* class_subject_teacher_map[class_obj.id][subject.id] = teacher_id *)
Bind(st, subject_id, teacher_id) == [ st EXCEPT !.map[subject_id] = teacher_id ]

(* history: the slot took the "no teacher available, use placeholder" branch *)
MarkFallback(st, took, class_id, subject_id, d, period) ==
    IF took
    THEN [ st EXCEPT !.fb = @ \cup { [class_id |-> class_id, subject_id |-> subject_id,
                                      day |-> d, period |-> period] } ]
    ELSE st

(* Schedule.query sees the committed rows and the session's flushed rows *)
Visible(st) == db \cup st.rows

(* existing_subjects_today seeded from Schedule.query.filter_by(class_id, day) *)
ExistingSubjectsToday(rows, class_id, d) ==
    { r.subject_id : r \in { x \in rows : x.class_id = class_id /\ x.day = d } }

(* the start of a pass: existing_subjects_today, period1_assigned = False *)
Seed(st, existing) ==
    [ st EXCEPT !.existing = existing, !.period1_assigned = FALSE, !.stop = FALSE ]

(* first subject of the list not in existing_subjects_today, or None *)
NextSubject(subject_list, existing) == FirstNotIn(subject_list, existing)

(* 807-812: Science if it exists, else Bio Science *)
science_subject_to_use == OrElse(science_subject, bio_science_subject)

(* 800-805: all but library, games, physical science *)
NotSpecial67 ==
    SelectSeq(Ids(subjects), LAMBDA s : s # library_subject /\ s # games_subject
                                        /\ s # physical_science_subject)

(* 814-816: drop bio science when it stands for Science *)
DropBio(list) ==
    IF bio_science_subject # None /\ science_subject_to_use # None
    THEN SelectSeq(list, LAMBDA s : s # bio_science_subject) ELSE list

(* 821-823: append Science *)
AddScience(list) ==
    IF science_subject_to_use # None THEN Append(list, science_subject_to_use)
    ELSE list

(* regular_subjects of a grade 6/7 class (800-826), as subject ids *)
regular_subjects_67 == Take(AddScience(Take(DropBio(NotSpecial67), Take5)), Take6)

(* regular_subjects of a grade 8/9 class (953-957) *)
regular_subjects_89 ==
    Take(SelectSeq(Ids(subjects), LAMBDA s : s # library_subject /\ s # games_subject),
         Take7)

(* other_subjects of a grade 10 class (1113-1116) *)
other_subjects == Take(SelectSeq(Ids(subjects), LAMBDA s : s # maths_subject), Take6)

(* 848-849: "Fallback to first subject" *)
OrFirst(list, s) == IF s # None THEN s ELSE list[1]

(* the class teacher's row written without setting period1_assigned *)
ClassTeacherTakes_NoFlag(st, c, d, subject) ==
    UsedToday(Bind(AddSchedule(st, c.class_teacher_id, c.id, subject, d, 1),
                   subject, c.class_teacher_id), subject)

(* 851-862: the class teacher takes period 1 with `subject` *)
ClassTeacherTakes(st, c, d, subject) ==
    [ UsedToday(Bind(AddSchedule(st, c.class_teacher_id, c.id, subject, d, 1),
                     subject, c.class_teacher_id), subject)
      EXCEPT !.period1_assigned = TRUE ]

(* "Period 1: Class teacher if available" of grades 6-9 (837-862, 968-993) *)
ClassTeacherPeriod1(st, c, d, regular_subjects) ==
    IF c.class_teacher_id # None /\ d = 0
       /\ c.class_teacher_id \in TeacherIds /\ Len(regular_subjects) > 0
    THEN ClassTeacherTakes(st, c, d,
             OrFirst(regular_subjects, NextSubject(regular_subjects, st.existing)))
    ELSE st

(* 883-900: grade 6/7 writes the slot; nothing is bound *)
Place67(st, c, d, period, subject, found) ==
    IF OrPlaceholder(found) = None
    THEN Unscheduled(st, c.id, d, period, "no teachers in system")
    ELSE UsedToday(MarkFallback(AddSchedule(st, OrPlaceholder(found), c.id, subject,
                                            d, period),
                                found = None, c.id, subject, d, period), subject)

(* 877-881: break when no subject is left, else look a teacher up *)
Slot67Of(st, c, d, period, subject) ==
    IF subject = None THEN [ st EXCEPT !.stop = TRUE ]
    ELSE Place67(st, c, d, period, subject,
                 get_available_teacher_for_subject(Visible(st), subject, d, period,
                                                   c.id, FALSE))

(* 870-900: one period of the grade 6/7 loop *)
Slot67(st, c, d, regular_subjects, period) ==
    Slot67Of(st, c, d, period, NextSubject(regular_subjects, st.existing))

(* Grade 6/7, "Period 1-6: Regular subjects" (864-900) *)
RECURSIVE Loop67(_, _, _, _, _)
Loop67(st, c, d, regular_subjects, period) ==
    IF period > LastRegular67 \/ st.stop THEN st
    ELSE IF period = 1 /\ st.period1_assigned
    THEN Loop67(st, c, d, regular_subjects, period + 1)
    ELSE Loop67(Slot67(st, c, d, regular_subjects, period), c, d, regular_subjects,
                period + 1)

(* 1016-1039: first time for this subject: look up, fall back, bind, write *)
PlaceAndBind(st, c, d, period, subject, found) ==
    IF OrPlaceholder(found) = None
    THEN Unscheduled(st, c.id, d, period, "no teachers in system")
    ELSE UsedToday(MarkFallback(AddSchedule(Bind(st, subject, OrPlaceholder(found)),
                                            OrPlaceholder(found), c.id, subject,
                                            d, period),
                                found = None, c.id, subject, d, period), subject)

(* 1008-1039 (and again 1126-1157): break, reuse the bound teacher, or bind *)
StickySlotOf(st, c, d, period, subject) ==
    IF subject = None THEN [ st EXCEPT !.stop = TRUE ]
    ELSE IF st.map[subject] # None
    THEN UsedToday(AddSchedule(st, st.map[subject], c.id, subject, d, period), subject)
    ELSE PlaceAndBind(st, c, d, period, subject,
                      get_available_teacher_for_subject(Visible(st), subject, d,
                                                        period, c.id, FALSE))

(* 1001-1039: one period of the grade 8/9 loop *)
Slot89(st, c, d, regular_subjects, period) ==
    StickySlotOf(st, c, d, period, NextSubject(regular_subjects, st.existing))

(* Grade 8/9, "Period 1-7: Regular subjects" (995-1039) *)
RECURSIVE Loop89(_, _, _, _, _)
Loop89(st, c, d, regular_subjects, period) ==
    IF period > LastRegular89 \/ st.stop THEN st
    ELSE IF period = 1 /\ st.period1_assigned
    THEN Loop89(st, c, d, regular_subjects, period + 1)
    ELSE Loop89(Slot89(st, c, d, regular_subjects, period), c, d, regular_subjects,
                period + 1)

(* Grade 10, "Period 2-7: Other subjects" (1118-1157) *)
RECURSIVE Loop10(_, _, _, _)
Loop10(st, c, d, period) ==
    IF period > LastRegular89 \/ st.stop THEN st
    ELSE Loop10(StickySlotOf(st, c, d, period, NextSubject(other_subjects, st.existing)),
                c, d, period + 1)

(* 906-921, 1047-1064: the marker is replaced by the placeholder teacher *)
LeisureRow(st, c, d, period, subject_id, teacher_id) ==
    IF teacher_id = None THEN st
    ELSE AddSchedule(st, teacher_id, c.id, subject_id, d, period)

(* 906-912: "if teacher_id == -1 or teacher_id is None" *)
MarkerToPlaceholder(marker) ==
    IF marker = NoTeacherNeeded \/ marker = None THEN placeholder_teacher ELSE marker

(* A Library/Games slot (902-921, 926-945, 1044-1064) *)
LeisureSlot(st, c, d, period, subject_id) ==
    LeisureRow(st, c, d, period, subject_id,
               MarkerToPlaceholder(
                   get_available_teacher_for_subject(Visible(st), subject_id, d,
                                                     period, c.id, TRUE)))

(* 902-924: period 7 of grade 6/7 *)
Library67(st, c, d) ==
    IF library_subject # None THEN LeisureSlot(st, c, d, 7, library_subject)
    ELSE Summary(Unscheduled(st, c.id, d, 7, "Library subject not found"),
                 c.id, "Library subject not found in database")

(* 926-948: period 8 of grade 6/7 *)
Games67(st, c, d) ==
    IF games_subject # None THEN LeisureSlot(st, c, d, LastPeriod, games_subject)
    ELSE Summary(Unscheduled(st, c.id, d, LastPeriod, "Games subject not found"),
                 c.id, "Games subject not found in database")

(* 902-948; the `continue` of line 912 leaves the pass *)
Leisure67(st, c, d) ==
    IF library_subject # None /\ placeholder_teacher = None THEN st
    ELSE Games67(Library67(st, c, d), c, d)

(* the grade in [6, 7] branch (796-948) *)
Grade67(st, c, d) ==
    Leisure67(Loop67(ClassTeacherPeriod1(
                         Seed(st, ExistingSubjectsToday(Visible(st), c.id, d)),
                         c, d, regular_subjects_67),
                     c, d, regular_subjects_67, 1),
              c, d)

(* the alternation with the days exchanged *)
period8_subject_Swapped(d) == IF d \in {0, 2, 4} THEN games_subject ELSE library_subject

(* 1043: Library on Monday, Wednesday, Friday, else Games *)
period8_subject(d) == IF d \in {0, 2, 4} THEN library_subject ELSE games_subject

(* 1041-1067: period 8 of grade 8/9 *)
Period8_89(st, c, d) ==
    IF period8_subject(d) # None
    THEN LeisureSlot(st, c, d, LastPeriod, period8_subject(d))
    ELSE Summary(Unscheduled(st, c.id, d, LastPeriod, "Library/Games subject not found"),
                 c.id, "Library/Games subject not found in database")

(* the grade in [8, 9] branch (950-1067) *)
Grade89(st, c, d) ==
    Period8_89(Loop89(ClassTeacherPeriod1(
                          Seed(st, ExistingSubjectsToday(Visible(st), c.id, d)),
                          c, d, regular_subjects_89),
                      c, d, regular_subjects_89, 1),
               c, d)

(* 1094-1110, 1164-1177: Maths by lookup, else teachers[0]; "if teacher_id" *)
PlaceMaths(st, c, d, period, found) ==
    IF OrPlaceholder(found) = None THEN st
    ELSE MarkFallback(AddSchedule(st, OrPlaceholder(found), c.id, maths_subject,
                                  d, period),
                      found = None, c.id, maths_subject, d, period)

MathsLookup(st, c, d, period) ==
    get_available_teacher_for_subject(Visible(st), maths_subject, d, period, c.id, FALSE)

(* period 1 of grade 10 that never asks for the class teacher *)
Period1_10_Lookup(st, c, d) == PlaceMaths(st, c, d, 1, MathsLookup(st, c, d, 1))

(* 1088-1110: period 1 of grade 10; nothing is bound *)
Period1_10(st, c, d) ==
    IF c.class_teacher_id # None /\ d = 0 /\ c.class_teacher_id \in TeacherIds
    THEN AddSchedule(st, c.class_teacher_id, c.id, maths_subject, d, 1)
    ELSE PlaceMaths(st, c, d, 1, MathsLookup(st, c, d, 1))

(* 1162-1167: no Maths teacher bound yet: look up at period 8 and bind *)
BindMaths8(st, c, d, found) ==
    PlaceMaths(Bind(st, maths_subject, OrPlaceholder(found)), c, d, LastPeriod, found)

(* 1159-1177: period 8 of grade 10 *)
Period8_10(st, c, d) ==
    IF st.map[maths_subject] # None
    THEN AddSchedule(st, st.map[maths_subject], c.id, maths_subject, d, LastPeriod)
    ELSE BindMaths8(st, c, d, MathsLookup(st, c, d, LastPeriod))

(* the grade == 10 branch (1069-1177) *)
Grade10(st, c, d) ==
    IF maths_subject = None
    THEN Summary(Unscheduled(st, c.id, d, 0, "Maths subject not found"),
                 c.id, "Maths subject not found in database")
    ELSE Period8_10(Loop10(Period1_10(
                               Seed(st, ExistingSubjectsToday(Visible(st), c.id, d)
                                        \ { maths_subject }),
                               c, d),
                           c, d, 2),
                    c, d)

(* the body of `for class_obj in classes` (790-1177): dispatch on the grade *)
ClassDay(st, c, d) ==
    IF c.grade \in {6, 7} THEN Grade67(st, c, d)
    ELSE IF c.grade \in {8, 9} THEN Grade89(st, c, d)
    ELSE IF c.grade = 10 THEN Grade10(st, c, d)
    ELSE st

-----------------------------------------------------------------------------
(* Initial states: the tables hold any of the bounded configurations; the  *)
(* Schedule table holds a row left by an earlier request when there are    *)
(* a class and a subject for it to name.                                   *)

LegacyRow == [id |-> 1, teacher_id |-> 1, class_id |-> 1, subject_id |-> 1,
              day |-> 0, period |-> 1]

PriorStores(cls, cat) ==
    IF Len(cls) > 0 /\ Len(cat) > 0 THEN { { LegacyRow } } ELSE { {} }

EmptyMap == [ c \in {} |-> << >> ]

(* the answer of a request that has not been made *)
(* werkzeug's generate_password_hash and check_password_hash, and the     *)
(* password_hash column of an account without password (models.py 33)     *)
NoHash == [ set |-> FALSE, of |-> "" ]

generate_password_hash(password) == [ set |-> TRUE, of |-> password ]

check_password_hash(pwhash, password) == pwhash.set /\ pwhash.of = password

(* the account created at start-up (144-155) *)
admin_user ==
    [ id |-> 1, username |-> "ravi", email |-> "ravi@school.com",
      password_hash |-> generate_password_hash("School@143"), is_admin |-> TRUE,
      teacher_id |-> None, status |-> "approved" ]

NoReply == [ route |-> "", code |-> 0 ]

NoAnswer == [ status |-> 0, method |-> "", logged_in |-> FALSE, date |-> "",
              seen |-> {}, absent |-> {}, suggestions |-> {} ]

(* no request has run yet *)
InitRequests ==
    /\ teachers = << >> /\ classes = << >> /\ subjects = << >>
    /\ library_subject = None /\ games_subject = None /\ maths_subject = None
    /\ physical_science_subject = None /\ bio_science_subject = None
    /\ science_subject = None
    /\ subject_teacher_map = EmptyMap
    /\ sess = {}
    /\ nextId = 2
    /\ pc = "idle"
    /\ day = 0
    /\ ci = 1
    /\ class_subject_teacher_map = EmptyMap
    /\ unscheduled_periods = << >>
    /\ summary = << >>
    /\ fallback = {}
    /\ before = db
    /\ status = 0
    /\ unscheduled_count = 0
    /\ absenceRows = EmptyBag
    /\ posting = {}
    /\ answer = NoAnswer
    /\ pc2 = "idle"
    /\ first = [ serial |-> FALSE, ok |-> FALSE, rows |-> {}, start |-> 0 ]
    /\ userRows = << admin_user >>
    /\ sessions = [ c \in 1..MaxCallers |-> None ]
    /\ reply = NoReply

Init ==
    /\ \E cat \in Catalogues :
          /\ subjectRows = SubjectTable(cat)
          /\ teacherRows \in TeacherTables(Len(cat))
          /\ classRows \in ClassTables
          /\ db \in PriorStores(classRows, cat)
    /\ InitRequests

-----------------------------------------------------------------------------
(* generate_schedule, POST /api/generate-schedule (651-1245) *)

(* 160-171: login_required: the caller has no session *)
GenUnauthenticated ==
    /\ pc = "idle"
    /\ pc' = "unauthenticated"
    /\ status' = 401
    /\ before' = db
    /\ UNCHANGED << others, tables, read, locals, db, sess, nextId, fallback,
                    unscheduled_count >>

(* a refusal that has already cleared the table *)
GenForbidden_Deletes ==
    /\ pc = "idle"
    /\ pc' = "forbidden"
    /\ status' = 403
    /\ before' = db
    /\ db' = {}
    /\ UNCHANGED << others, tables, read, locals, sess, nextId, fallback,
                    unscheduled_count >>

(* 664-666: the caller is not an admin *)
GenForbidden ==
    /\ pc = "idle"
    /\ pc' = "forbidden"
    /\ status' = 403
    /\ before' = db
    /\ UNCHANGED << others, tables, read, locals, db, sess, nextId, fallback,
                    unscheduled_count >>

(* 664-668: an admin caller enters the try block *)
GenBegin ==
    /\ pc = "idle"
    /\ pc' = "try"
    /\ before' = db
    /\ UNCHANGED << others, tables, read, locals, db, sess, nextId, fallback, status,
                    unscheduled_count >>

(* 670-671: Schedule.query.delete(); db.session.commit() *)
GenDelete ==
    /\ pc = "try"
    /\ db' = {}
    /\ pc' = "check"
    /\ UNCHANGED << others, tables, read, locals, sess, nextId, fallback, before, status,
                    unscheduled_count >>

(* 678, 685-686: the two precondition tests *)
PreconditionFails(ts, cs, ss) ==
    \/ Len(ts) = 0 \/ Len(cs) = 0 \/ Len(ss) = 0
    \/ \E i \in 1..Len(cs) : cs[i].grade = None

(* 674-676: the three table reads *)
ReadTables ==
    /\ teachers' = read_teachers
    /\ classes' = classRows
    /\ subjects' = subjectRows

(* 674-690: read the tables, refuse when a precondition fails *)
GenRefuse ==
    /\ pc = "check"
    /\ ReadTables
    /\ PreconditionFails(teachers', classes', subjects')
    /\ pc' = "refused"
    /\ status' = 400
    /\ UNCHANGED << others, tables, locals, db, sess, nextId, fallback, before,
                    unscheduled_count, library_subject, games_subject,
                    maths_subject, physical_science_subject, bio_science_subject,
                    science_subject, subject_teacher_map >>

(* 674-786: the preconditions hold; find the special subjects, build the   *)
(* maps and the empty report                                               *)
GenSetup ==
    /\ pc = "check"
    /\ ReadTables
    /\ ~PreconditionFails(teachers', classes', subjects')
    /\ library_subject' = SubjectNamed({"library"})
    /\ games_subject' = SubjectNamed({"games"})
    /\ maths_subject' = read_maths_subject
    /\ physical_science_subject' = SubjectNamed({"physical science", "physics"})
    /\ bio_science_subject' =
          SubjectNamed({"bio science", "biology", "biological science"})
    /\ science_subject' = SubjectNamed({"science"})
    /\ subject_teacher_map' =
          build_subject_teacher_map(teachers', subjects', bio_science_subject',
                                    science_subject')
    /\ pc' = "loop"
    /\ day' = 0
    /\ ci' = 1
    /\ class_subject_teacher_map' =
          [ c \in Range(Ids(classes')) |-> [ s \in Range(Ids(subjects')) |-> None ] ]
    /\ unscheduled_periods' = << >>
    /\ summary' =
          IF Len(subjects_without_any_teacher(subjects', subject_teacher_map')) > 0
          THEN << [class_id |-> None, what |-> "Subjects with no teachers assigned"] >>
          ELSE << >>
    /\ UNCHANGED << others, tables, db, sess, nextId, fallback, before, status,
                    unscheduled_count >>

(* the state a pass starts from *)
PassStart ==
    [ rows |-> sess, next |-> nextId,
      map |-> class_subject_teacher_map[classes[ci].id],
      unsched |-> unscheduled_periods, summ |-> summary, fb |-> fallback,
      existing |-> {}, period1_assigned |-> FALSE, stop |-> FALSE ]

(* what a pass leaves behind *)
PassEnd(st) ==
    /\ sess' = st.rows
    /\ nextId' = st.next
    /\ class_subject_teacher_map' =
          [ class_subject_teacher_map EXCEPT ![classes[ci].id] = st.map ]
    /\ unscheduled_periods' = st.unsched
    /\ summary' = st.summ
    /\ fallback' = st.fb

(* 789-1177: one pass of the loop body, for (day, classes[ci]) *)
GenClassDay ==
    /\ pc = "loop"
    /\ PassEnd(ClassDay(PassStart, classes[ci], day))
    /\ IF ci < Len(classes)
       THEN ci' = ci + 1 /\ day' = day /\ pc' = "loop"
       ELSE IF day < NumDays - 1
       THEN ci' = 1 /\ day' = day + 1 /\ pc' = "loop"
       ELSE ci' = ci /\ day' = day /\ pc' = "commit"
    /\ UNCHANGED << others, tables, read, db, before, status, unscheduled_count >>

(* a final commit that loses the rows of the session *)
GenCommit_Lost ==
    /\ pc = "commit"
    /\ db' = db
    /\ sess' = {}
    /\ pc' = "done"
    /\ status' = 200
    /\ unscheduled_count' = Len(unscheduled_periods)
    /\ UNCHANGED << others, tables, read, locals, nextId, fallback, before >>

(* 1179-1236: the final commit and the response *)
GenCommit ==
    /\ pc = "commit"
    /\ db' = db \cup sess
    /\ sess' = {}
    /\ pc' = "done"
    /\ status' = 200
    /\ unscheduled_count' = Len(unscheduled_periods)
    /\ UNCHANGED << others, tables, read, locals, nextId, fallback, before >>

(* 1238-1245: an exception inside the try block; db.session.rollback() *)
GenFail ==
    /\ pc \in { "try", "check", "loop", "commit" }
    /\ sess' = {}
    /\ pc' = "failed"
    /\ status' = 500
    /\ day' = 0
    /\ ci' = 1
    /\ class_subject_teacher_map' = EmptyMap
    /\ unscheduled_periods' = << >>
    /\ summary' = << >>
    /\ UNCHANGED << others, tables, read, db, nextId, fallback, before, unscheduled_count >>

Next ==
    \/ GenUnauthenticated
    \/ GenForbidden
    \/ GenBegin
    \/ GenDelete
    \/ GenRefuse
    \/ GenSetup
    \/ GenClassDay
    \/ GenCommit
    \/ GenFail

Spec == Init /\ [][Next]_vars

-----------------------------------------------------------------------------
(* Vocabulary of the properties *)

Done == pc = "done"

Days == 0..(NumDays - 1)
Periods == 1..LastPeriod

ClassesOfGrades(gs) == { classRows[i].id : i \in { j \in 1..Len(classRows) :
                                                     classRows[j].grade \in gs } }

(* the rows of the store for a class and a day, and at one period of it *)
RowsOn(c, d) == { r \in db : r.class_id = c /\ r.day = d }
RowsAt(c, d, p) == { r \in RowsOn(c, d) : r.period = p }

LeisureSubjects == { library_subject, games_subject } \ { None }

(* subjects that are neither Library nor Games *)
RegularIds == SubjectIds \ LeisureSubjects

(* the row is in a slot that took the placeholder fallback, or repeats the  *)
(* teacher such a slot bound for its class and subject                      *)
FilledByFallback(r) ==
    \E f \in fallback : /\ f.class_id = r.class_id
                        /\ f.subject_id = r.subject_id
                        /\ r.teacher_id = placeholder_teacher

Exempt(r) == r.subject_id \in LeisureSubjects \/ FilledByFallback(r)

(* every class teacher is a non-leisure teacher of one class only *)
ClassTeachersProper ==
    /\ \A i \in 1..Len(classRows) :
          classRows[i].class_teacher_id # None =>
              \E j \in 1..Len(teacherRows) :
                  /\ teacherRows[j].id = classRows[i].class_teacher_id
                  /\ ~teacherRows[j].is_leisure
    /\ \A i, j \in 1..Len(classRows) :
          ( i # j /\ classRows[i].class_teacher_id # None )
          => classRows[i].class_teacher_id # classRows[j].class_teacher_id

(* C1: after a generation run no teacher is assigned to two different      *)
(* classes at the same (day, period), not counting Library/Games rows and  *)
(* rows filled by the placeholder fallback.                                *)
C1_NoTeacherConflict ==
    ( Done /\ ClassTeachersProper ) => \A r1, r2 \in db :
                ( /\ r1.day = r2.day /\ r1.period = r2.period
                  /\ r1.class_id # r2.class_id
                  /\ r1.teacher_id = r2.teacher_id )
                => ( Exempt(r1) \/ Exempt(r2) )

(* C2: sticky binding: a (class, subject) pair that has a teacher on day 0 *)
(* has that same teacher on each of days 1-4.                              *)
C2_StickyBinding ==
    ( Done /\ ClassTeachersProper ) => \A r0, r \in db :
                ( /\ r0.day = 0 /\ r.day \in 1..4
                  /\ r.class_id = r0.class_id /\ r.subject_id = r0.subject_id )
                => r.teacher_id = r0.teacher_id

(* periods 2-7 of (c, d) hold 6 distinct subjects other than Maths *)
SixOthers(c, d) ==
    /\ \A p \in 2..7 : \E r \in RowsAt(c, d, p) : r.subject_id # maths_subject
    /\ \A r1, r2 \in RowsOn(c, d) :
          ( r1.period \in 2..7 /\ r2.period \in 2..7 /\ r1.period # r2.period )
          => r1.subject_id # r2.subject_id

(* C3: for a grade-10 class, when a Maths subject exists, on every weekday *)
(* periods 1 and 8 are Maths with one teacher, the same on all five days,  *)
(* and periods 2-7 hold 6 distinct non-Maths subjects.                     *)
C3_Grade10Maths ==
    ( Done /\ maths_subject # None /\ ClassTeachersProper ) =>
        \A c \in ClassesOfGrades({10}) :
            \E t \in TeacherIds : \A d \in Days :
                /\ \A p \in {1, LastPeriod} :
                      /\ RowsAt(c, d, p) # {}
                      /\ \A r \in RowsAt(c, d, p) :
                            r.subject_id = maths_subject /\ r.teacher_id = t
                /\ SixOthers(c, d)

(* periods 1-6 of (c, d) hold 6 distinct regular subjects, 7 Library, 8 Games *)
Full67(c, d) ==
    /\ Cardinality(RowsOn(c, d)) = LastPeriod
    /\ \A p \in 1..6 : \E r \in RowsAt(c, d, p) : r.subject_id \in RegularIds
    /\ \A r1, r2 \in RowsOn(c, d) :
          r1.period # r2.period => r1.subject_id # r2.subject_id
    /\ \E r \in RowsAt(c, d, 7) : r.subject_id = library_subject
    /\ \E r \in RowsAt(c, d, LastPeriod) : r.subject_id = games_subject

(* C4: a grade 6/7 class has, on every weekday, 6 distinct regular subjects *)
(* in periods 1-6, Library at 7 and Games at 8 -- stated for the stores    *)
(* where that can be: Library, Games and 6 further subjects exist.         *)
C4_Grade67Day ==
    ( Done /\ library_subject # None /\ games_subject # None
           /\ Cardinality(RegularIds) >= 6 ) =>
        \A c \in ClassesOfGrades({6, 7}) : \A d \in Days : Full67(c, d)

(* periods 1-7 of (c, d) hold 7 distinct regular subjects and period 8 one *)
(* row, Library on days 0, 2, 4 and Games on days 1, 3                     *)
Full89(c, d) ==
    /\ \A p \in 1..7 : \E r \in RowsAt(c, d, p) : r.subject_id \in RegularIds
    /\ \A r1, r2 \in RowsOn(c, d) :
          r1.period # r2.period => r1.subject_id # r2.subject_id
    /\ Cardinality(RowsAt(c, d, LastPeriod)) = 1
    /\ \A r \in RowsAt(c, d, LastPeriod) :
          /\ r.subject_id # None
          /\ d \in {0, 2, 4} => r.subject_id = library_subject
          /\ d \in {1, 3} => r.subject_id = games_subject

(* C5 as claimed: every grade 8/9 class, every weekday *)
C5_Grade89Day_Claimed ==
    Done => \A c \in ClassesOfGrades({8, 9}) : \A d \in Days : Full89(c, d)

(* C5: when Library, Games and at least 7 further subjects exist, a grade  *)
(* 8/9 class has on every weekday 7 distinct regular subjects in periods   *)
(* 1-7 and exactly one row at period 8, Library on days 0, 2, 4 and Games  *)
(* on days 1, 3.                                                           *)
C5_Grade89Day ==
    ( Done /\ library_subject # None /\ games_subject # None
           /\ Cardinality(RegularIds) >= 7 ) =>
        \A c \in ClassesOfGrades({8, 9}) : \A d \in Days : Full89(c, d)

C5_Witness ==
    /\ Done /\ library_subject # None /\ games_subject # None
    /\ Cardinality(RegularIds) >= 7
    /\ \E c \in ClassesOfGrades({8, 9}) :
          /\ Cardinality(RowsOn(c, 1)) = LastPeriod
          /\ \E r \in RowsAt(c, 1, LastPeriod) : r.subject_id = games_subject

(* C6: no subject is in two different periods of one (class, day), except  *)
(* Maths at periods 1 and 8 of a grade-10 class.                           *)
C6_NoSubjectRepeats ==
    Done => \A r1, r2 \in db :
                ( /\ r1.class_id = r2.class_id /\ r1.day = r2.day
                  /\ r1.subject_id = r2.subject_id /\ r1.period # r2.period )
                => ( /\ r1.class_id \in ClassesOfGrades({10})
                     /\ r1.subject_id = maths_subject
                     /\ { r1.period, r2.period } = { 1, LastPeriod } )

C6_Witness ==
    /\ Done
    /\ \E c \in ClassesOfGrades({10}) :
          /\ \E r \in RowsAt(c, 2, 1) : r.subject_id = maths_subject
          /\ \E r \in RowsAt(c, 2, LastPeriod) : r.subject_id = maths_subject
    /\ \E c \in ClassesOfGrades({6, 7, 8, 9}) : Cardinality(RowsOn(c, 2)) >= 7

(* every row has its day in 0..4 and its period in 1..8 *)
RowsInRange == \A r \in db : r.day \in Days /\ r.period \in Periods

C8_RefusalWritesNothing == pc = "refused" => db = before

(* C9: a generation request that fails with an error leaves the Schedule   *)
(* table as it was when the request arrived.                               *)
C9_FailureRollsBack == pc = "failed" => db = before

(* C10: a successful run reports at least as many unscheduled periods as   *)
(* slots took the placeholder fallback.                                    *)
C10_FallbackIsReported ==
    Done => status = 200 /\ unscheduled_count >= Cardinality(fallback)

-----------------------------------------------------------------------------
(* Grades and the report *)

(* the grades the dispatch of the loop body knows (796, 950, 1069) *)
Bands == { 6, 7, 8, 9, 10 }

OutOfBand ==
    \E i \in 1..Len(classRows) : classRows[i].grade \notin ( Bands \cup { None } )

(* C11: when some class has a grade outside the bands 6-7, 8-9, 10, the    *)
(* request never gets past the precondition tests: it does not enter the   *)
(* loop, and it does not answer with success.                              *)
C11_OutOfBandRefused ==
    OutOfBand => ( pc \notin { "loop", "commit", "done" } /\ status # 200 )

(* the periods a day of a class of that grade is filled at *)
ExpectedPeriods(grade, d) ==
    IF grade \in { 6, 7 }
    THEN ( 1..Cardinality(Range(regular_subjects_67)) )
         \cup ( IF library_subject # None THEN { LastPeriod - 1 } ELSE {} )
         \cup ( IF games_subject # None THEN { LastPeriod } ELSE {} )
    ELSE IF grade \in { 8, 9 }
    THEN ( 1..Cardinality(Range(regular_subjects_89)) )
         \cup ( IF period8_subject(d) # None THEN { LastPeriod } ELSE {} )
    ELSE {}

(* the class has its rows on every day *)
FullWeek(c) ==
    \A d \in Days : /\ { r.period : r \in RowsOn(c.id, d) } = ExpectedPeriods(c.grade, d)
                    /\ Cardinality(RowsOn(c.id, d))
                          = Cardinality(ExpectedPeriods(c.grade, d))

(* the report names the class for the day, and the summary names the class *)
GapReported(c) ==
    /\ \A d \in Days : \E i \in 1..Len(unscheduled_periods) :
          /\ unscheduled_periods[i].class_id = c.id
          /\ unscheduled_periods[i].day = d
          /\ unscheduled_periods[i].what = "Maths subject not found"
    /\ \E i \in 1..Len(summary) :
          /\ summary[i].class_id = c.id
          /\ summary[i].what = "Maths subject not found in database"

(* C12: after a run without any Maths/Mathematics subject, a grade-10      *)
(* class has no row on any day, the report (unscheduled list and summary)  *)
(* names it for every day, and every class of grades 6-9 has all its rows  *)
(* on all five days.                                                       *)
C12_MissingMaths ==
    ( Done /\ maths_subject = None /\ ClassesOfGrades({10}) # {} )
    => \A i \in 1..Len(classRows) :
          /\ classRows[i].grade = 10
                => ( \A r \in db : r.class_id # classRows[i].id )
                   /\ GapReported(classRows[i])
          /\ classRows[i].grade \in { 6, 7, 8, 9 } => FullWeek(classRows[i])

(* a run without Maths over a grade-10 class and a class of another band   *)
(* that has rows on Friday                                                 *)
C12_Witness ==
    /\ Done /\ maths_subject = None /\ ClassesOfGrades({10}) # {}
    /\ \E c \in ClassesOfGrades({ 7, 9 }) : RowsOn(c, NumDays - 1) # {}
    /\ Len(unscheduled_periods) >= NumDays

-----------------------------------------------------------------------------
(* Eligibility and the class teacher *)

(* the teacher is among the teachers the run holds for the subject         *)
(* (subject_teacher_map, Science merged with Bio Science)                  *)
Eligible(teacher_id, subject_id) == teacher_id \in Range(Candidates(subject_id))

(* C19: after a generation run every row of a subject other than Library   *)
(* and Games has a teacher who teaches that subject, except the rows       *)
(* filled by the placeholder fallback.                                     *)
C19_OnlyEligibleTeachers ==
    ( Done /\ ClassTeachersProper )
    => \A r \in db : ~Exempt(r) => Eligible(r.teacher_id, r.subject_id)

(* classes of a band that have a class teacher *)
WithClassTeacher ==
    { i \in 1..Len(classRows) : /\ classRows[i].class_teacher_id # None
                                /\ classRows[i].grade \in Bands }

(* the subject the class teacher's Monday period 1 carries *)
Period1Subject(c) ==
    IF c.grade = 10 THEN maths_subject
    ELSE IF c.grade \in { 6, 7 }
    THEN ElemOrNone(regular_subjects_67, IF Len(regular_subjects_67) > 0 THEN 1 ELSE 0)
    ELSE ElemOrNone(regular_subjects_89, IF Len(regular_subjects_89) > 0 THEN 1 ELSE 0)

(* Monday period 1 of the class is one row, of the class teacher, with the *)
(* subject of period 1                                                     *)
MondayByClassTeacher(c) ==
    /\ Cardinality(RowsAt(c.id, 0, 1)) = 1
    /\ \A r \in RowsAt(c.id, 0, 1) : /\ r.teacher_id = c.class_teacher_id
                                      /\ r.subject_id = Period1Subject(c)

-----------------------------------------------------------------------------
(* absent_teachers, GET and POST /api/absent-teachers (1248-1389) *)

(* bounds of the staff room: teachers in the table, Absence rows *)
MaxStaff == 4
MaxAbsences == 2

(* the slice [:2] of the suggestions *)
Take2 == 2

(* the calendar: weekday() of the dates a request can name *)
Calendar == ( "2024-01-01" :> 0 ) @@ ( "2024-01-06" :> 5 )

(* the date strings of the requests; the last one is not YYYY-MM-DD *)
DateInputs == { "2024-01-01", "2024-01-06", "01/01/2024" }

(* datetime.strptime(date_str, '%Y-%m-%d').date(), or ValueError *)
strptime_date(date_str) ==
    IF date_str \in DOMAIN Calendar THEN date_str ELSE "ValueError"

(* target_date.weekday() *)
weekday(target_date) == Calendar[target_date]

(* Absence.query.filter_by(date=target_date).all() *)
absences_on(target_date) == { a \in BagToSet(absenceRows) : a.date = target_date }

(* [a.teacher_id for a in absences] *)
absent_teacher_ids(absences) == { a.teacher_id : a \in absences }

(* the substitutes that may also be absent themselves *)
available_substitutes_AnyPresent(absent_id, absent_ids) ==
    SelectSeq(teacherRows, LAMBDA t : ~t.is_leisure /\ t.id # absent_id)

(* 1297-1302: non-leisure teachers who are not absent *)
available_substitutes(absent_id, absent_ids) ==
    SelectSeq(teacherRows, LAMBDA t : ~t.is_leisure /\ t.id # absent_id
                                      /\ t.id \notin absent_ids)

(* the rows of the absent teacher on any day *)
absent_schedules_AnyDay(rows, absent_id, day_of_week) ==
    { r \in rows : r.teacher_id = absent_id }

(* 1290-1293: the rows of the absent teacher on the weekday *)
absent_schedules(rows, absent_id, day_of_week) ==
    { r \in rows : r.teacher_id = absent_id /\ r.day = day_of_week }

(* 1308-1313: the teachers with a row at (weekday, period) *)
busy_teachers(rows, day_of_week, period) ==
    { r.teacher_id : r \in { x \in rows : x.day = day_of_week /\ x.period = period } }

(* 1315-1318: the available substitutes that are not busy *)
potential_substitutes(available, busy) ==
    SelectSeq(available, LAMBDA t : t.id \notin busy)

(* the whole list, not cut *)
top_suggestions_All(potential) == Ids(potential)

(* 1326: potential_substitutes[:2] *)
top_suggestions(potential) == Ids(Take(potential, Take2))

(* 1320-1327: the suggestion for one row of the absent teacher *)
suggestion(rows, schedule, absent_ids, day_of_week) ==
    [ absent |-> schedule.teacher_id, class_id |-> schedule.class_id,
      period |-> schedule.period, subject_id |-> schedule.subject_id,
      available_substitutes |->
          top_suggestions(potential_substitutes(
              available_substitutes(schedule.teacher_id, absent_ids),
              busy_teachers(rows, day_of_week, schedule.period))) ]

(* 1286-1335: the suggestions for every absence of the date *)
substitution_suggestions(rows, absent_ids, day_of_week) ==
    { suggestion(rows, r, absent_ids, day_of_week) :
        r \in UNION { absent_schedules(rows, a, day_of_week) : a \in absent_ids } }

(* 1264-1273: GET with a date that does not parse *)
AbsentGetBadDate ==
    /\ \E date_str \in DateInputs, logged_in \in BOOLEAN :
          /\ strptime_date(date_str) = "ValueError"
          /\ answer' = [ NoAnswer EXCEPT !.status = 400, !.method = "GET",
                                         !.logged_in = logged_in ]
    /\ UNCHANGED << tables, read, locals, db, sess, nextId, pc, fallback, before,
                    status, unscheduled_count, absenceRows, posting, second, auth >>

(* 1264-1341: GET; the queries read the committed Schedule rows.  The      *)
(* handler never looks at the session.                                     *)
AbsentGet ==
    /\ \E date_str \in DateInputs, logged_in \in BOOLEAN :
          /\ strptime_date(date_str) # "ValueError"
          /\ answer' =
               [ status |-> 200, method |-> "GET", logged_in |-> logged_in,
                 date |-> strptime_date(date_str), seen |-> db,
                 absent |-> absent_teacher_ids(absences_on(strptime_date(date_str))),
                 suggestions |->
                    substitution_suggestions(db,
                        absent_teacher_ids(absences_on(strptime_date(date_str))),
                        weekday(strptime_date(date_str))) ]
    /\ UNCHANGED << tables, read, locals, db, sess, nextId, pc, fallback, before,
                    status, unscheduled_count, absenceRows, posting, second, auth >>

(* 1349-1373: POST refused: no teacher_id, a date that does not parse, or  *)
(* the teacher is already marked absent for the date                       *)
AbsentPostRefused ==
    /\ \E teacher_id \in 0..Len(teacherRows), date_str \in DateInputs,
          logged_in \in BOOLEAN :
          /\ \/ teacher_id = None
             \/ strptime_date(date_str) = "ValueError"
             \/ [ teacher_id |-> teacher_id, date |-> strptime_date(date_str) ]
                   \in BagToSet(absenceRows)
          /\ answer' = [ NoAnswer EXCEPT !.status = 400, !.method = "POST",
                                         !.logged_in = logged_in ]
    /\ UNCHANGED << tables, read, locals, db, sess, nextId, pc, fallback, before,
                    status, unscheduled_count, absenceRows, posting, second, auth >>

(* 1343-1389: POST marks the teacher absent; the handler never looks at    *)
(* the session, so the caller may or may not be logged in                  *)
AbsentPost ==
    /\ BagCardinality(absenceRows) < MaxAbsences
    /\ \E teacher_id \in 1..Len(teacherRows), date_str \in DateInputs,
          logged_in \in BOOLEAN :
          /\ strptime_date(date_str) # "ValueError"
          /\ [ teacher_id |-> teacher_id, date |-> strptime_date(date_str) ]
                \notin BagToSet(absenceRows)
          /\ absenceRows' = absenceRows (+) SetToBag(
                { [ teacher_id |-> teacher_id, date |-> strptime_date(date_str) ] })
          /\ answer' = [ NoAnswer EXCEPT !.status = 200, !.method = "POST",
                                         !.logged_in = logged_in,
                                         !.date = strptime_date(date_str),
                                         !.absent = { teacher_id } ]
    /\ UNCHANGED << tables, read, locals, db, sess, nextId, pc, fallback, before,
                    status, unscheduled_count, posting, second, auth >>

(* the staff room: MaxStaff teachers who teach every subject; the second  *)
(* of them may be a leisure teacher                                        *)
StaffTables(n) ==
    { [ i \in 1..MaxStaff |->
          [id |-> i, is_leisure |-> ( i = l ), subjects |-> IF i = l THEN {} ELSE 1..n] ]
      : l \in { 0, 2 } }

(* up to MaxClasses classes of grades 7 and 10, without class teachers *)
StaffClassTables ==
    UNION { { [ i \in 1..k |-> [id |-> i, grade |-> g[i], class_teacher_id |-> None] ]
              : g \in [1..k -> {7, 10}] }
            : k \in 0..MaxClasses }

InitAdvisor ==
    /\ \E cat \in { CatExample } :
          /\ subjectRows = SubjectTable(cat)
          /\ teacherRows \in StaffTables(Len(cat))
          /\ classRows \in StaffClassTables
          /\ db \in PriorStores(classRows, cat)
    /\ InitRequests

NextAdvisor ==
    \/ Next
    \/ AbsentGetBadDate
    \/ AbsentGet
    \/ AbsentPostRefused
    \/ AbsentPost

SpecAdvisor == InitAdvisor /\ [][NextAdvisor]_vars

-----------------------------------------------------------------------------
(* The substitution advisor *)

(* the last request was a GET that answered with suggestions *)
GetAnswered == answer.method = "GET" /\ answer.status = 200

(* the place of a teacher in the store order *)
StorePosition(teacher_id) ==
    CHOOSE i \in 1..Len(teacherRows) : teacherRows[i].id = teacher_id

(* the teacher has a row at the slot's (weekday, period) in the rows the   *)
(* request read                                                            *)
BusyAt(teacher_id, s) ==
    \E r \in answer.seen : /\ r.teacher_id = teacher_id
                           /\ r.day = weekday(answer.date)
                           /\ r.period = s.period

(* the teacher may stand in at the slot: not leisure, not the absent       *)
(* teacher, not absent that date, not busy at the slot                     *)
FreeFor(teacher_id, s) ==
    /\ ~teacherRows[StorePosition(teacher_id)].is_leisure
    /\ teacher_id # s.absent
    /\ teacher_id \notin answer.absent
    /\ ~BusyAt(teacher_id, s)

(* every slot of every absent teacher on the weekday has its suggestion *)
EverySlotAnswered ==
    \A r \in answer.seen :
        ( r.teacher_id \in answer.absent /\ r.day = weekday(answer.date) )
        => \E s \in answer.suggestions : /\ s.absent = r.teacher_id
                                         /\ s.class_id = r.class_id
                                         /\ s.period = r.period

(* C13: in the answer of the advisor, every slot of every teacher absent   *)
(* on the date has a suggestion, and no suggested substitute is the absent *)
(* teacher, a teacher absent on that date, a leisure teacher, or a teacher *)
(* with a row at that (weekday, period) in any class.                      *)
C13_SubstitutesAreFree ==
    GetAnswered
    => /\ EverySlotAnswered
       /\ \A s \in answer.suggestions :
             \A i \in 1..Len(s.available_substitutes) :
                 FreeFor(s.available_substitutes[i], s)

(* two teachers are absent on the date, a leisure teacher exists, and a    *)
(* slot of an absent teacher has a substitute while another teacher is     *)
(* busy at that slot                                                       *)
C13_Witness ==
    /\ GetAnswered
    /\ Cardinality(answer.absent) = 2
    /\ \E i \in 1..Len(teacherRows) : teacherRows[i].is_leisure
    /\ \E s \in answer.suggestions :
          /\ Len(s.available_substitutes) > 0
          /\ \E t \in TeacherIds : t \notin answer.absent /\ BusyAt(t, s)

(* C14: each suggestion holds at most 2 substitutes, all free for the      *)
(* slot, in store order, and a free teacher is left out only when 2 free   *)
(* teachers earlier in store order were returned.                          *)
C14_FirstTwoInStoreOrder ==
    GetAnswered
    => \A s \in answer.suggestions :
          /\ Len(s.available_substitutes) <= 2
          /\ \A i \in 1..Len(s.available_substitutes) :
                /\ FreeFor(s.available_substitutes[i], s)
                /\ \A j \in 1..Len(s.available_substitutes) :
                      i < j => StorePosition(s.available_substitutes[i])
                                 < StorePosition(s.available_substitutes[j])
          /\ \A t \in TeacherIds :
                ( FreeFor(t, s) /\ t \notin Range(s.available_substitutes) )
                => /\ Len(s.available_substitutes) = 2
                   /\ StorePosition(s.available_substitutes[2]) < StorePosition(t)

(* a slot with three free teachers: the third is left out *)
C14_Witness ==
    /\ GetAnswered
    /\ \E s \in answer.suggestions :
          /\ Len(s.available_substitutes) = 2
          /\ \E t \in TeacherIds :
                FreeFor(t, s) /\ t \notin Range(s.available_substitutes)

(* C16: the rows a substitution query read are the whole Schedule table of *)
(* before the generation run or the whole table of after it.               *)
C16_QuerySeesWholeStore ==
    ( Done /\ GetAnswered ) => ( answer.seen = before \/ answer.seen = db )

(* C18: a POST to /api/absent-teachers from a caller who is not logged in  *)
(* does not add an Absence row (it is not answered with success).          *)
C18_PostNeedsLogin ==
    ( answer.method = "POST" /\ ~answer.logged_in ) => answer.status # 200

-----------------------------------------------------------------------------
(* Two generation requests.  The second request is an admin's; its delete  *)
(* (670-671) can come at any moment of the first request, and the rest of  *)
(* its handler runs once the first request has answered, so that the two   *)
(* are serialized exactly when the delete comes after the first answer.    *)

(* the first request has answered *)
Answered == pc \in { "done", "failed", "refused", "forbidden", "unauthenticated" }

(* a delete that removes nothing *)
SecondDelete_KeepsRows ==
    /\ pc2 = "idle"
    /\ pc2' = "deleted"
    /\ first' = [ serial |-> Answered, ok |-> ( pc = "done" ), rows |-> db,
                  start |-> 0 ]
    /\ UNCHANGED << tables, read, locals, db, sess, nextId, pc, fallback, before,
                    status, unscheduled_count, absenceRows, posting, answer, auth >>

(* 670-671 of the second request: Schedule.query.delete(); commit *)
SecondDelete ==
    /\ pc2 = "idle"
    /\ pc2' = "deleted"
    /\ db' = {}
    /\ first' = [ serial |-> Answered, ok |-> ( pc = "done" ), rows |-> db,
                  start |-> 0 ]
    /\ UNCHANGED << tables, read, locals, sess, nextId, pc, fallback, before,
                    status, unscheduled_count, absenceRows, posting, answer, auth >>

(* 673 of the second request: it goes on to read the tables, with a        *)
(* session and a report of its own                                         *)
SecondResume ==
    /\ pc2 = "deleted"
    /\ Answered
    /\ pc2' = "running"
    /\ pc' = "check"
    /\ first' = [ first EXCEPT !.start = nextId ]
    /\ sess' = {}
    /\ fallback' = {}
    /\ status' = 0
    /\ unscheduled_count' = 0
    /\ UNCHANGED << tables, read, locals, db, nextId, before, absenceRows, posting,
                    answer, auth >>

(* up to MaxClasses classes of grades 7, 9 and 10; the second teacher may  *)
(* be a class teacher                                                      *)
RunsClassTables ==
    UNION { { [ i \in 1..k |-> [id |-> i, grade |-> g[i], class_teacher_id |-> t[i]] ]
              : g \in [1..k -> {7, 9, 10}], t \in [1..k -> {0, 2}] }
            : k \in 0..MaxClasses }

InitRuns ==
    /\ \E cat \in { CatExample } :
          /\ subjectRows = SubjectTable(cat)
          /\ teacherRows \in TeacherTables(Len(cat))
          /\ classRows \in RunsClassTables
          /\ db \in PriorStores(classRows, cat)
    /\ InitRequests

NextRuns ==
    \/ Next
    \/ SecondDelete
    \/ SecondResume

SpecRuns == InitRuns /\ [][NextRuns]_vars

(* the assignments of a set of rows: the rows without their primary keys *)
Assignments(rows) ==
    { [ teacher_id |-> r.teacher_id, class_id |-> r.class_id,
        subject_id |-> r.subject_id, day |-> r.day, period |-> r.period ] : r \in rows }

(* the second request has answered with success *)
SecondDone == Done /\ pc2 = "running"

(* C15: when a second generation run follows a first successful one over   *)
(* the same tables, the store holds the same assignments after the second  *)
(* run as after the first, and as many rows.                               *)
C15_Idempotent ==
    ( SecondDone /\ first.serial /\ first.ok )
    => /\ Assignments(db) = Assignments(first.rows)
       /\ Cardinality(db) = Cardinality(first.rows)

(* a second run after a first one that stored rows for two classes; the    *)
(* rows of the second run are new rows                                     *)
C15_Witness ==
    /\ SecondDone /\ first.serial /\ first.ok
    /\ \E r1, r2 \in db : r1.class_id # r2.class_id
    /\ \A r \in db : r.id >= first.start
    /\ \A r \in first.rows : r.id < first.start

(* two rows of the store for one (class, day, period) *)
TwoInOneSlot ==
    \E r1, r2 \in db : /\ r1 # r2
                       /\ r1.class_id = r2.class_id
                       /\ r1.day = r2.day
                       /\ r1.period = r2.period

(* C17: when the second request deletes only after the first has answered, *)
(* the store after it holds exactly the rows the second run added, never   *)
(* two for one (class, day, period).                                       *)
C17_SerializedOneRun ==
    ( SecondDone /\ first.serial )
    => /\ { r.id : r \in db } = first.start..( nextId - 1 )
       /\ Cardinality(db) = nextId - first.start
       /\ ~TwoInOneSlot

(* the second request deleted while the first was between its delete and   *)
(* its final commit, and the store ends with two rows for one slot         *)
C17_Witness ==
    /\ SecondDone
    /\ ~first.serial
    /\ TwoInOneSlot
    /\ \E r \in db : r.id < first.start
    /\ \E r \in db : r.id >= first.start

-----------------------------------------------------------------------------
(* The teacher lookup *)

(* the grade of the class of a row *)
GradeOf(r) == classRows[r.class_id].grade

(* the row the class teacher's pass wrote: Monday period 1 of a class with *)
(* a class teacher                                                         *)
ClassTeacherRow(r) ==
    /\ r.day = 0 /\ r.period = 1
    /\ classRows[r.class_id].class_teacher_id # None

(* rows written before r: the primary keys grow with every row *)
Earlier(r) == { x \in db : x.id < r.id }

(* the row repeats the teacher bound to its class and subject: the sticky  *)
(* lookup of grades 8-9 and of periods 2-8 of grade 10                     *)
BoundRow(r) ==
    IF GradeOf(r) \in { 8, 9 }
    THEN \E x \in Earlier(r) : x.class_id = r.class_id /\ x.subject_id = r.subject_id
    ELSE IF GradeOf(r) = 10 /\ r.subject_id = maths_subject
    THEN /\ r.period = LastPeriod
         /\ \E x \in Earlier(r) : /\ x.class_id = r.class_id
                                  /\ x.subject_id = maths_subject
                                  /\ x.period = LastPeriod
    ELSE IF GradeOf(r) = 10
    THEN \E x \in Earlier(r) : x.class_id = r.class_id /\ x.subject_id = r.subject_id
    ELSE FALSE

(* the row's teacher came from get_available_teacher_for_subject *)
LookupRow(r) ==
    /\ ~ClassTeacherRow(r)
    /\ ~BoundRow(r)
    /\ ~ ( GradeOf(r) \in { 6, 7, 8, 9 } /\ r.subject_id \in LeisureSubjects )

(* the teachers with an earlier row at the row's (day, period) in another  *)
(* class                                                                   *)
BusyBefore(r) ==
    { x.teacher_id : x \in { y \in Earlier(r) : /\ y.day = r.day
                                                 /\ y.period = r.period
                                                 /\ y.class_id # r.class_id } }

(* the row's teacher is the first eligible teacher who was free, or the    *)
(* placeholder when no eligible teacher was free                           *)
FirstEligibleFree(r) ==
    \/ \E i \in 1..Len(Candidates(r.subject_id)) :
          /\ Candidates(r.subject_id)[i] = r.teacher_id
          /\ r.teacher_id \notin BusyBefore(r)
          /\ \A j \in 1..(i - 1) : Candidates(r.subject_id)[j] \in BusyBefore(r)
    \/ /\ Range(Candidates(r.subject_id)) \subseteq BusyBefore(r)
       /\ r.teacher_id = placeholder_teacher

(* C21: after a generation run, every row whose teacher was looked up (no  *)
(* teacher bound to its class and subject) has the first teacher of the    *)
(* subject's list without an earlier row at that (day, period) in another  *)
(* class, and has the placeholder only when the list is empty or all busy. *)
C21_FirstEligibleFree ==
    Done => \A r \in db : LookupRow(r) => FirstEligibleFree(r)

(* a looked-up row whose teacher is the second of the list because the     *)
(* first was busy in another class                                         *)
C21_Witness ==
    /\ Done
    /\ \E r \in db :
          /\ LookupRow(r)
          /\ Len(Candidates(r.subject_id)) = 2
          /\ Candidates(r.subject_id)[2] = r.teacher_id
          /\ Candidates(r.subject_id)[1] \in BusyBefore(r)

(* the rows a lookup of the running request sees *)
Written == db \cup sess

LeisureReported ==
    \E i \in 1..Len(unscheduled_periods) :
        unscheduled_periods[i].what \in { "Library subject not found",
                                          "Games subject not found",
                                          "Library/Games subject not found" }

(* C23: after a generation run every Library or Games row has the          *)
(* placeholder teacher, and no Library/Games slot is in the unscheduled    *)
(* report, also when the Library or Games subject does not exist.          *)
C23_LeisureIsPlaceholder ==
    Done => /\ \A r \in db : r.subject_id \in LeisureSubjects
                                => r.teacher_id = placeholder_teacher
            /\ ~LeisureReported

(* C26: a generate-schedule request of a caller who is not an admin, or    *)
(* has no session, is refused and the Schedule table is as it was.         *)
C26_NonAdminChangesNothing ==
    pc \in { "forbidden", "unauthenticated" }
    => ( status \in { 401, 403 } /\ db = before /\ sess = {} )

(* a refused caller over a table that holds a row *)
C26_Witness == pc = "forbidden" /\ status = 403 /\ db # {}

-----------------------------------------------------------------------------
(* Library and Games rows, and the frame of the advisor *)

(* the suggestion is for a Library or Games slot of a class of grades 6-9 *)
LeisureSlotOf(s) ==
    /\ classRows[s.class_id].grade \in { 6, 7, 8, 9 }
    /\ s.subject_id \in LeisureSubjects

(* C24: after a generation run the advisor lists no Library or Games slot  *)
(* of a class of grades 6-9 as a slot that needs a substitute.             *)
C24_LeisureIsTeacherless ==
    ( Done /\ GetAnswered /\ answer.seen = db )
    => \A s \in answer.suggestions : ~LeisureSlotOf(s)

(* the answer a holds one suggestion for each row of an absent teacher on  *)
(* the weekday of the date, and none on Saturday and Sunday                *)
OnePerAssignment(a) ==
    /\ \A r \in a.seen :
          ( r.teacher_id \in a.absent /\ r.day = weekday(a.date) )
          => Cardinality({ s \in a.suggestions : /\ s.absent = r.teacher_id
                                                 /\ s.class_id = r.class_id
                                                 /\ s.period = r.period
                                                 /\ s.subject_id = r.subject_id }) = 1
    /\ \A s \in a.suggestions :
          \E r \in a.seen : /\ r.teacher_id = s.absent /\ r.teacher_id \in a.absent
                            /\ r.day = weekday(a.date)
                            /\ r.class_id = s.class_id /\ r.period = s.period
                            /\ r.subject_id = s.subject_id
    /\ weekday(a.date) >= NumDays => a.suggestions = {}

(* C25: a GET of /api/absent-teachers leaves the Teacher, Class, Subject,  *)
(* Schedule and Absence tables as they are, and its answer holds one       *)
(* suggestion for each row of an absent teacher on the date's weekday,     *)
(* none for a Saturday or Sunday.                                          *)
C25_LookupReadOnly ==
    [][ ( answer' # answer /\ answer'.method = "GET" )
        => /\ UNCHANGED << tables, db, sess, absenceRows >>
           /\ answer'.status = 200
                 => ( answer'.seen = db /\ OnePerAssignment(answer') ) ]_vars

(* an answer with suggestions for several rows of an absent teacher, over  *)
(* a table that also holds rows of other days                              *)
C25_Witness ==
    /\ GetAnswered
    /\ Cardinality(answer.suggestions) >= 2
    /\ \E r \in answer.seen : r.teacher_id \in answer.absent
                              /\ r.day # weekday(answer.date)
    /\ answer.seen = db

-----------------------------------------------------------------------------
(* Two callers of POST /api/absent-teachers.  The handler tests for an     *)
(* existing row (1364-1373) and inserts (1376-1383) in two steps, and the  *)
(* Absence table has no unique key on (teacher_id, date).                  *)

(* 1345-1373 of a caller: the body is read, the date parses and no row for *)
(* (teacher_id, date) exists                                               *)
AbsentPostCheck ==
    /\ BagCardinality(absenceRows) + Cardinality(posting) < MaxAbsences
    /\ \E caller \in 1..MaxCallers, teacher_id \in 1..Len(teacherRows),
          date_str \in DateInputs, logged_in \in BOOLEAN :
          /\ \A q \in posting : q.caller # caller
          /\ strptime_date(date_str) # "ValueError"
          /\ [ teacher_id |-> teacher_id, date |-> strptime_date(date_str) ]
                \notin BagToSet(absenceRows)
          /\ posting' = posting \cup
                { [ caller |-> caller, teacher_id |-> teacher_id,
                    date |-> strptime_date(date_str), logged_in |-> logged_in ] }
    /\ UNCHANGED << tables, read, locals, db, sess, nextId, pc, fallback, before,
                    status, unscheduled_count, absenceRows, answer, second, auth >>

(* 1376-1389 of a caller: the row is added and committed *)
AbsentPostInsert ==
    /\ \E q \in posting :
          /\ absenceRows' = absenceRows (+) SetToBag(
                { [ teacher_id |-> q.teacher_id, date |-> q.date ] })
          /\ posting' = posting \ { q }
          /\ answer' = [ NoAnswer EXCEPT !.status = 200, !.method = "POST",
                                         !.logged_in = q.logged_in,
                                         !.date = q.date,
                                         !.absent = { q.teacher_id } ]
    /\ UNCHANGED << tables, read, locals, db, sess, nextId, pc, fallback, before,
                    status, unscheduled_count, second, auth >>

InitAbsence == InitAdvisor

NextAbsence ==
    \/ AbsentPostCheck
    \/ AbsentPostInsert
    \/ AbsentPostRefused
    \/ AbsentGet

SpecAbsence == InitAbsence /\ [][NextAbsence]_vars

(* C27: the Absence table holds at most one row for a (teacher, date).     *)
C27_OneAbsencePerTeacherDate ==
    \A a \in BagToSet(absenceRows) : CopiesIn(a, absenceRows) <= 1

-----------------------------------------------------------------------------
(* Accounts: login (175-236), signup (239-363), logout (366-370),          *)
(* approve_user (406-497), reject_user (500-522) and the POST branch of    *)
(* /api/teachers (1395-1493).  A request runs in one transaction, and an   *)
(* early return before the commit leaves the store as it was.              *)

UsernameInputs == { "", "ravi", "asha", "Asha", "ash" }
(* signup also strips its username *)
SignupInputs == UsernameInputs \cup { "asha " }
PasswordInputs == { "", "School@143", "p1" }
EmailInputs == { "", "ravi@school.com" }

(* what the account requests leave alone *)
outside == << classRows, subjectRows, read, locals, db, sess, nextId, pc, fallback,
              before, status, unscheduled_count, absenceRows, posting, answer,
              second >>

(* str.strip over the usernames (256) *)
strip(username) == IF username = "asha " THEN "asha" ELSE username

(* SQL LIKE '%part%' over the lowered usernames (277) *)
like(value, part) == value = part \/ ( part = "ash" /\ value = "asha" )

(* Query.first() over the User table: the position of the row, or 0 *)
by_username(username) ==
    FirstTrue([ i \in 1..Len(userRows) |-> userRows[i].username = username ])

by_email(email) ==
    FirstTrue([ i \in 1..Len(userRows) |-> userRows[i].email = email ])

by_id(user_id) ==
    FirstTrue([ i \in 1..Len(userRows) |-> userRows[i].id = user_id ])

(* User.check_password (models.py 46-50) *)
check_password(user, password) ==
    user.password_hash.set /\ check_password_hash(user.password_hash, password)

(* User.set_password (models.py 42-44) *)
set_password(user, password) ==
    [ user EXCEPT !.password_hash = generate_password_hash(password) ]

Answer(route, code) == reply' = [ route |-> route, code |-> code ]

(* login: the status a POST ends with (183-221); user is the row's position *)
login_outcome_AnyStatus(username, password, user) ==
    IF username = "" \/ password = "" THEN 400
    ELSE IF user = 0 THEN 401
    ELSE IF ~ userRows[user].password_hash.set THEN 401
    ELSE IF ~ check_password(userRows[user], password) THEN 401
    ELSE 200

login_outcome(username, password, user) ==
    IF username = "" \/ password = "" THEN 400
    ELSE IF user = 0 THEN 401
    ELSE IF ~ userRows[user].password_hash.set THEN 401
    ELSE IF ~ check_password(userRows[user], password) THEN 401
    ELSE IF userRows[user].status # "approved" THEN 403
    ELSE 200

(* login (175-236): the session is written at 219 when the request passes *)
Login ==
    \E c \in 1..MaxCallers, username \in UsernameInputs, password \in PasswordInputs :
        /\ sessions' =
               IF login_outcome(username, password, by_username(username)) = 200
               THEN [ sessions EXCEPT ![c] = userRows[by_username(username)].id ]
               ELSE sessions
        /\ Answer("login", login_outcome(username, password, by_username(username)))
        /\ UNCHANGED << userRows, teacherRows, outside >>

(* logout (366-370) *)
Logout ==
    \E c \in 1..MaxCallers :
        /\ sessions' = [ sessions EXCEPT ![c] = None ]
        /\ Answer("logout", 302)
        /\ UNCHANGED << userRows, teacherRows, outside >>

(* signup: the account a username stands for (268-280), or 0 *)
existing_user(username) ==
    IF FirstTrue([ i \in 1..Len(userRows) |->
                     Lower(userRows[i].username) = Lower(username) ]) # 0
    THEN FirstTrue([ i \in 1..Len(userRows) |->
                       Lower(userRows[i].username) = Lower(username) ])
    ELSE FirstTrue([ i \in 1..Len(userRows) |->
                       /\ userRows[i].teacher_id # None
                       /\ like(Lower(userRows[i].username), Lower(username)) ])

(* signup: whether the password of the account is set (286-291) *)
may_set_password(user) ==
    \/ ~ user.password_hash.set
    \/ ( user.teacher_id # None /\ user.status = "approved" )

(* signup: the e-mail belongs to another account (298-301) *)
email_taken(user, email) ==
    /\ email # "" /\ user.email # email
    /\ by_email(email) # 0
    /\ userRows[by_email(email)].id # user.id

(* signup: what is committed for the account (293-311) *)
password_setup(user, password, email) ==
    [ set_password(user, password) EXCEPT
                  !.status = "approved",
                  !.email = IF email # "" THEN email ELSE @ ]

(* signup: the new row (338-344) *)
new_user(username, email, password) ==
    [ id |-> Len(userRows) + 1, username |-> username, email |-> email,
      password_hash |-> generate_password_hash(password), is_admin |-> FALSE,
      teacher_id |-> None, status |-> "pending" ]

SignupExisting(i, password, email) ==
    IF ~ may_set_password(userRows[i])
    THEN Answer("signup", 400) /\ UNCHANGED userRows
    ELSE IF email_taken(userRows[i], email)
    THEN Answer("signup", 400) /\ UNCHANGED userRows
    ELSE /\ userRows' = [ userRows EXCEPT ![i] = password_setup(@, password, email) ]
         /\ Answer("signup", 200)

SignupNew(username, email, password) ==
    IF email # "" /\ by_email(email) # 0
    THEN Answer("signup", 500) /\ UNCHANGED userRows
    ELSE /\ Len(userRows) < MaxUsers
         /\ userRows' = Append(userRows, new_user(username, email, password))
         /\ Answer("signup", 200)

Signup ==
    \E username \in SignupInputs, email \in EmailInputs, password \in PasswordInputs :
      \E confirm_password \in { password, "" } :
        /\ IF username = "" \/ password = "" \/ password # confirm_password
           THEN Answer("signup", 400) /\ UNCHANGED userRows
           ELSE IF existing_user(strip(username)) # 0
           THEN SignupExisting(existing_user(strip(username)), password, email)
           ELSE SignupNew(strip(username), email, password)
        /\ UNCHANGED << sessions, teacherRows, outside >>

(* login_required and the admin test of approve_user and reject_user:      *)
(* the status that refuses caller c, or 0 (160-171, 420-422, 504-506)       *)
admin_refusal(c) ==
    IF sessions[c] = None THEN 401
    ELSE IF by_id(sessions[c]) = 0 THEN 403
    ELSE IF ~ userRows[by_id(sessions[c])].is_admin THEN 403
    ELSE 0

(* the Teacher row approve_user and POST /api/teachers add (461-465, 1454-1458) *)
new_teacher == [ id |-> Len(teacherRows) + 1, is_leisure |-> FALSE, subjects |-> {} ]

(* approve_user (406-497), without a class and without subjects *)
ApproveUser ==
    \E c \in 1..MaxCallers, user_id \in 1..MaxUsers, create_teacher \in BOOLEAN :
        /\ IF admin_refusal(c) # 0
           THEN Answer("approve", admin_refusal(c))
                /\ UNCHANGED << userRows, teacherRows >>
           ELSE IF by_id(user_id) = 0
           THEN Answer("approve", 404) /\ UNCHANGED << userRows, teacherRows >>
           ELSE IF userRows[by_id(user_id)].status # "pending"
           THEN Answer("approve", 400) /\ UNCHANGED << userRows, teacherRows >>
           ELSE /\ userRows' =
                      [ userRows EXCEPT ![by_id(user_id)] =
                          [ @ EXCEPT !.status = "approved",
                                     !.teacher_id = IF create_teacher
                                                    THEN new_teacher.id ELSE @ ] ]
                /\ teacherRows' = IF create_teacher
                                  THEN Append(teacherRows, new_teacher)
                                  ELSE teacherRows
                /\ Answer("approve", 200)
        /\ UNCHANGED << sessions, outside >>

(* reject_user (500-522) *)
RejectUser ==
    \E c \in 1..MaxCallers, user_id \in 1..MaxUsers :
        /\ IF admin_refusal(c) # 0
           THEN Answer("reject", admin_refusal(c)) /\ UNCHANGED userRows
           ELSE IF by_id(user_id) = 0
           THEN Answer("reject", 404) /\ UNCHANGED userRows
           ELSE IF userRows[by_id(user_id)].status # "pending"
           THEN Answer("reject", 400) /\ UNCHANGED userRows
           ELSE /\ userRows' = [ userRows EXCEPT ![by_id(user_id)].status = "rejected" ]
                /\ Answer("reject", 200)
        /\ UNCHANGED << sessions, teacherRows, outside >>

(* POST /api/teachers (1395-1493): the account of a new teacher *)
teacher_user(username, email) ==
    [ id |-> Len(userRows) + 1, username |-> username, email |-> email,
      password_hash |-> NoHash, is_admin |-> FALSE,
      teacher_id |-> new_teacher.id, status |-> "approved" ]

TeachersPost ==
    \E c \in 1..MaxCallers, username \in UsernameInputs, email \in EmailInputs :
        /\ IF sessions[c] = None
           THEN Answer("teachers", 401) /\ UNCHANGED << userRows, teacherRows >>
           ELSE IF username = "" \/ by_username(username) # 0
                   \/ ( email # "" /\ by_email(email) # 0 )
           THEN Answer("teachers", 400) /\ UNCHANGED << userRows, teacherRows >>
           ELSE /\ Len(userRows) < MaxUsers
                /\ teacherRows' = Append(teacherRows, new_teacher)
                /\ userRows' = Append(userRows, teacher_user(username, email))
                /\ Answer("teachers", 200)
        /\ UNCHANGED << sessions, outside >>

InitAuth ==
    /\ subjectRows = SubjectTable(CatExample)
    /\ teacherRows = << >>
    /\ classRows = << >>
    /\ db = {}
    /\ InitRequests

NextAuth ==
    \/ Login
    \/ Logout
    \/ Signup
    \/ ApproveUser
    \/ RejectUser
    \/ TeachersPost

SpecAuth == InitAuth /\ [][NextAuth]_vars

-----------------------------------------------------------------------------
(* Properties of the account requests *)

Users == 1..Len(userRows)

HasPassword(i) == userRows[i].password_hash.set

(* C28: a signup leaves the password and the status of every account that  *)
(* already has a password as they were, and it succeeds only by adding an  *)
(* account or by giving a password to an account that had none.            *)
C28_SignupKeepsPasswords ==
    [][ reply'.route = "signup" =>
          /\ \A i \in Users :
                HasPassword(i) =>
                    /\ userRows'[i].password_hash = userRows[i].password_hash
                    /\ userRows'[i].status = userRows[i].status
          /\ reply'.code = 200 =>
                \/ Len(userRows') = Len(userRows) + 1
                \/ \E i \in Users :
                      ~ HasPassword(i) /\ userRows'[i].password_hash.set ]_vars

StatusMoves(i) ==
    \/ /\ reply' = [ route |-> "approve", code |-> 200 ]
       /\ userRows'[i].status = "approved"
    \/ /\ reply' = [ route |-> "reject", code |-> 200 ]
       /\ userRows'[i].status = "rejected"

(* C29: the status of an account only moves from 'pending' to 'approved'   *)
(* by an approval or to 'rejected' by a rejection; an approval or a        *)
(* rejection that succeeds moved a pending account and leaves every        *)
(* approved or rejected account as it was; and a session that login writes *)
(* belongs to an account whose status is 'approved'.                       *)
C29_StatusOneWay ==
    [][ /\ \A i \in Users :
              userRows'[i].status # userRows[i].status =>
                  userRows[i].status = "pending" /\ StatusMoves(i)
        /\ ( reply'.route \in { "approve", "reject" } /\ reply'.code = 200 ) =>
              \E i \in Users :
                  userRows[i].status = "pending" /\ userRows'[i].status # "pending"
        /\ reply'.route \in { "approve", "reject" } =>
              \A i \in Users :
                  userRows[i].status # "pending" => userRows'[i] = userRows[i]
        /\ \A c \in 1..MaxCallers :
              ( sessions'[c] # sessions[c] /\ sessions'[c] # None ) =>
                  /\ reply'.route = "login"
                  /\ by_id(sessions'[c]) # 0
                  /\ userRows[by_id(sessions'[c])].status = "approved" ]_vars

(* a rejected account with a password is refused by login, next to an      *)
(* account that an approval has moved to 'approved'                        *)
C29_Witness ==
    /\ reply = [ route |-> "login", code |-> 403 ]
    /\ \E i \in Users : userRows[i].status = "rejected" /\ HasPassword(i)
    /\ \E i \in Users :
          /\ userRows[i].status = "approved" /\ ~ userRows[i].is_admin
          /\ userRows[i].teacher_id = None
    /\ \A c \in 1..MaxCallers :
          sessions[c] # None => userRows[by_id(sessions[c])].status = "approved"

====
